---------------------------- MODULE Spec2Model ----------------------------
(***************************************************************************)
(* Model of the VoiceRecorder component (single-shot transcription         *)
(* variant, src/src/components/VoiceRecorder.tsx lines 388-780): the React *)
(* state, the refs, and the platform objects the handlers create           *)
(* (capture streams, MediaRecorders, intervals, object URLs, FileReader /  *)
(* backend calls in flight).  One action per handler or platform callback. *)
(*                                                                         *)
(* Strings are sequences of tokens: "" is << >>.  Handlers run to          *)
(* completion (single-threaded event loop) and the component re-renders    *)
(* between two events, so a handler reads the current state.               *)
(*                                                                         *)
(* Specifications:                                                         *)
(*   Spec           recording, upload, transcription, clear, playback      *)
(*   SpecExport     Spec's handlers with copyTranscript, downloadTranscript*)
(*   SpecLifecycle  Spec's handlers with recorder setup failures, teardown *)
(*   SpecDownload   uploads, the wall clock and downloadTranscript         *)
(*   SpecLive       the live-recognition variant (lines 1-387): recording, *)
(*                  upload, clear and the recognition                      *)
(***************************************************************************)
EXTENDS Naturals, Sequences, FiniteSets

\* ---------------------------------------------------------------- bounds

\* Sessions in one run: begun, or being begun by a pending startRecording
MaxSessions == 2
\* cap of the elapsed-seconds counter and of the ticks counted per recording
MaxTime == 1
\* transcript files downloaded in one run
MaxDownloads == 2
\* seconds the wall clock advances in one run
MaxClock == 1
\* length to which the live transcript is followed
MaxLen == 3

\* ------------------------------------------------------------ value sets

\* text payloads the backend can put in { text }: empty, a word, a blank
BackendTexts == { <<>>, <<"a">>, <<" ">> }

\* file.type of the file picked in the dialog ("" when the platform knows none)
FileTypes == { <<"audio", "/", "mpeg">>, <<"audio", "/", "webm">>,
               <<"text", "/", "plain">>, <<"video", "/", "mp4">>, <<>> }

\* what supabase.functions.invoke resolves to (or "threw": the call rejects)
Responses ==
    { [kind |-> "error", text |-> <<>>],
      [kind |-> "threw", text |-> <<>>],
      [kind |-> "nodata", text |-> <<>>] }
    \cup { [kind |-> "data", text |-> t] : t \in BackendTexts }

VARIABLES
    \* React state (useState, lines 399-404)
    isRecording, isPlaying, audioURL, transcript, isTranscribing, recordingTime,
    \* refs (useRef, lines 406-409)
    mediaRecorderRef, intervalRef, chunksRef,
    \* platform objects
    pendingStarts,  \* number of startRecording calls awaiting getUserMedia, by
                    \* whether a Session was presented when the call was issued
    streams,        \* capture streams granted so far: "live" or "ended"
    recorders,      \* MediaRecorders created so far: state, stream, and (history)
                    \* its Session and whether it was started over a presented one
    intervals,      \* ids of the intervals still running
    nIntervals,     \* intervals created so far
    urls,           \* object URLs created and not revoked
    nUrls,          \* object URLs created so far
    calls,          \* transcribeAudio calls in flight
    \* history variables (not program state): they name the Sessions, so
    \* that the properties can be stated
    session,        \* id of the Session presented, 0 after clear / at start
    nSessions,      \* Sessions created so far
    transcriptFrom, \* Session whose transcription wrote transcript, 0 if none
    urlFrom,        \* Session whose audio audioURL holds, 0 if none
    ticks,          \* Clock ticks delivered to the recording in progress since it
                    \* began, 0 when none is
    \* outside the recording / transcription core
    mounted,        \* the component is mounted
    clipboard,      \* text the component last wrote to the clipboard, "" if none
    pendingCopies,  \* texts of the clipboard writes not yet settled
    downloads,      \* names of the files created by downloadTranscript, in order
    now,            \* wall clock: seconds and milliseconds
    exportCmd,      \* (history) the last of copy / download issued, "" if none
    recognition,    \* the SpeechRecognition of the live variant: its state and
                    \* (history) the Session it was last started for
    \* output
    toast           \* title of the last notification shown, "" before the first

progVars == << isRecording, isPlaying, audioURL, transcript, isTranscribing,
               recordingTime, mediaRecorderRef, intervalRef, chunksRef >>
envVars == << pendingStarts, streams, recorders, intervals, nIntervals, urls,
              nUrls, calls >>
histVars == << session, nSessions, transcriptFrom, urlFrom, ticks >>
extVars == << mounted, clipboard, pendingCopies, downloads, now, exportCmd,
              recognition >>
vars == << progVars, envVars, histVars, extVars, toast >>

\* ------------------------------------------------------------- helpers

\* String.prototype.startsWith
StartsWith(s, p) == Len(s) >= Len(p) /\ SubSeq(s, 1, Len(p)) = p

\* (mutant of IsAudioFile: a file without a type passes the check)
IsAudioFileOrUntyped(type) == type = <<>> \/ StartsWith(type, <<"audio", "/">>)

\* the check of handleFileUpload: file.type.startsWith('audio/')
IsAudioFile(type) == StartsWith(type, <<"audio", "/">>)

\* the truthiness test `data?.text`: a response with data and a non-empty text
HasText(resp) == resp.kind = "data" /\ resp.text # <<>>

\* the lifecycle state of spec 4.4, read off the flags the component renders
StateOf ==
    IF isRecording THEN "Recording"
    ELSE IF isTranscribing THEN "Pending"
    ELSE IF transcript # <<>> THEN "Transcribed"
    ELSE IF audioURL # 0 THEN "Failed"
    ELSE "Idle"

\* Sessions begun, and startRecording calls that may still begin one
Begun == nSessions + pendingStarts[FALSE] + pendingStarts[TRUE]

LiveStreams == { s \in 1..Len(streams) : streams[s] = "live" }
ActiveRecorders == { r \in 1..Len(recorders) : recorders[r].state = "recording" }
\* recorders whose stop() was called and whose events are not yet delivered
EndingRecorders == { r \in 1..Len(recorders) : recorders[r].state = "stopping" }

Init ==
    /\ isRecording = FALSE
    /\ isPlaying = FALSE
    /\ audioURL = 0
    /\ transcript = <<>>
    /\ isTranscribing = FALSE
    /\ recordingTime = 0
    /\ mediaRecorderRef = 0
    /\ intervalRef = 0
    /\ chunksRef = <<>>
    /\ pendingStarts = [over \in BOOLEAN |-> 0]
    /\ streams = <<>>
    /\ recorders = <<>>
    /\ intervals = {}
    /\ nIntervals = 0
    /\ urls = {}
    /\ nUrls = 0
    /\ calls = {}
    /\ session = 0
    /\ nSessions = 0
    /\ transcriptFrom = 0
    /\ urlFrom = 0
    /\ ticks = 0
    /\ mounted = TRUE
    /\ clipboard = <<>>
    /\ pendingCopies = {}
    /\ downloads = <<>>
    /\ now = [sec |-> 0, ms |-> 0]
    /\ exportCmd = ""
    /\ recognition = [state |-> "idle", session |-> 0]
    /\ toast = ""

\* ------------------------------------------------------------ recording

\* Click on the Record button: it calls startRecording while it shows
\* "Record" (isRecording false); the handler suspends at getUserMedia.
StartRecording ==
    /\ ~isRecording
    /\ Begun < MaxSessions
    /\ pendingStarts' = [pendingStarts EXCEPT ![session # 0] = @ + 1]
    /\ UNCHANGED toast
    /\ UNCHANGED << progVars, streams, recorders, intervals, nIntervals, urls,
                    nUrls, calls, session, nSessions, transcriptFrom, urlFrom,
                    ticks >>
    /\ UNCHANGED extVars

\* getUserMedia rejects (permission denied, no device): the catch block.
GetUserMediaRejects(over) ==
    /\ pendingStarts[over] > 0
    /\ pendingStarts' = [pendingStarts EXCEPT ![over] = @ - 1]
    /\ toast' = "Recording Failed"
    /\ UNCHANGED << progVars, streams, recorders, intervals, nIntervals, urls,
                    nUrls, calls, session, nSessions, transcriptFrom,
                    urlFrom, ticks >>
    /\ UNCHANGED extVars

\* getUserMedia resolves with a stream: the rest of startRecording.
GetUserMediaResolves(over) ==
    /\ pendingStarts[over] > 0
    /\ pendingStarts' = [pendingStarts EXCEPT ![over] = @ - 1]
    /\ streams' = Append(streams, "live")
    /\ recorders' = Append(recorders, [state |-> "recording",
                                       stream |-> Len(streams) + 1,
                                       session |-> nSessions + 1,
                                       over |-> over])
    /\ mediaRecorderRef' = Len(recorders) + 1
    /\ chunksRef' = <<>>
    /\ isRecording' = TRUE
    /\ recordingTime' = 0
    /\ nIntervals' = nIntervals + 1
    /\ intervals' = intervals \cup {nIntervals + 1}
    /\ intervalRef' = nIntervals + 1
    /\ nSessions' = nSessions + 1
    /\ session' = nSessions + 1
    /\ ticks' = 0
    /\ toast' = "Recording Started"
    /\ UNCHANGED << isPlaying, audioURL, transcript, isTranscribing, urls, nUrls,
                    calls, transcriptFrom, urlFrom >>
    /\ UNCHANGED extVars

\* the updater of the interval callback: prev => prev + 1
TickUpdate(prev) == prev + 1

\* A running interval fires: setRecordingTime(prev => prev + 1).
Tick(i) ==
    /\ i \in intervals
    /\ recordingTime < MaxTime
    /\ ticks < MaxTime
    /\ recordingTime' = TickUpdate(recordingTime)
    /\ ticks' = IF isRecording THEN ticks + 1 ELSE ticks
    /\ UNCHANGED toast
    /\ UNCHANGED << isRecording, isPlaying, audioURL, transcript, isTranscribing,
                    mediaRecorderRef, intervalRef, chunksRef, envVars,
                    session, nSessions, transcriptFrom, urlFrom >>
    /\ UNCHANGED extVars

\* (mutant of StopGuard: the isRecording test is left out)
StopGuardWithoutState == mediaRecorderRef # 0

\* the guard of stopRecording (line 472)
StopGuard == mediaRecorderRef # 0 /\ isRecording

\* stopRecording.  MediaRecorder.stop() on a recorder that is not recording
\* either returns silently or throws InvalidStateError (browsers differ);
\* when it throws, the handler ends there.
StopRecording ==
    /\ IF StopGuard
       THEN \E throws \in BOOLEAN :
            LET r == mediaRecorderRef
                active == recorders[r].state = "recording"
            IN  /\ active => ~throws
                /\ recorders' = IF active
                                THEN [recorders EXCEPT ![r].state = "stopping"]
                                ELSE recorders
                /\ IF throws
                   THEN /\ UNCHANGED << isRecording, isTranscribing, intervals, ticks >>
                        /\ UNCHANGED toast
                   ELSE /\ isRecording' = FALSE
                        /\ isTranscribing' = TRUE
                        /\ intervals' = intervals \ {intervalRef}
                        /\ ticks' = 0
                        /\ toast' = "Recording Stopped"
       ELSE /\ UNCHANGED << isRecording, isTranscribing, intervals, recorders, ticks >>
            /\ UNCHANGED toast
    /\ UNCHANGED << isPlaying, audioURL, transcript, recordingTime,
                    mediaRecorderRef, intervalRef, chunksRef,
                    pendingStarts, streams, nIntervals, urls, nUrls, calls,
                    session, nSessions, transcriptFrom, urlFrom >>
    /\ UNCHANGED extVars

\* the handler of dataavailable (lines 429-433): the chunk (named by its
\* recorder) is kept when its size is positive
OnDataAvailable(chunks, r, size) == IF size > 0 THEN Append(chunks, r) ELSE chunks

\* The events of a stopped recorder.  Without a timeslice the recorder
\* delivers what it gathered once, after stop(), and fires stop in the same
\* task: ondataavailable runs, then onstop, which builds the blob from
\* chunksRef, presents it, stops the tracks of its stream and calls
\* transcribeAudio, which sets isTranscribing and starts reading the blob.
RecorderEvents(r) ==
    /\ r \in 1..Len(recorders)
    /\ recorders[r].state = "stopping"
    /\ \E size \in {0, 1} :
         /\ chunksRef' = OnDataAvailable(chunksRef, r, size)
         /\ calls' = calls \cup {[session |-> recorders[r].session,
                                  phase |-> "reading", file |-> FALSE,
                                  blob |-> OnDataAvailable(chunksRef, r, size)]}
    /\ recorders' = [recorders EXCEPT ![r].state = "done"]
    /\ nUrls' = nUrls + 1
    /\ urls' = urls \cup {nUrls + 1}
    /\ audioURL' = nUrls + 1
    /\ streams' = [streams EXCEPT ![recorders[r].stream] = "ended"]
    /\ isTranscribing' = TRUE
    /\ urlFrom' = recorders[r].session
    /\ UNCHANGED toast
    /\ UNCHANGED << isRecording, isPlaying, transcript, recordingTime,
                    mediaRecorderRef, intervalRef,
                    pendingStarts, intervals, nIntervals,
                    session, nSessions, transcriptFrom, ticks >>
    /\ UNCHANGED extVars

\* -------------------------------------------------------- transcription

\* The loadend event of the FileReader of call c.  The blob of a recording
\* is in memory and is read; an uploaded File can fail to read (removed or
\* changed after it was picked), and then reader.result is null: the split
\* at line 596 throws before the inner try, and the handler ends there.
ReaderLoadEnd(c) ==
    /\ c \in calls
    /\ c.phase = "reading"
    /\ \E readOk \in BOOLEAN :
         /\ ~c.file => readOk
         /\ calls' = IF readOk
                     THEN (calls \ {c}) \cup {[c EXCEPT !.phase = "invoking"]}
                     ELSE calls \ {c}
         /\ UNCHANGED toast
    /\ UNCHANGED << progVars, pendingStarts, streams, recorders, intervals,
                    nIntervals, urls, nUrls, session, nSessions,
                    transcriptFrom, urlFrom, ticks >>
    /\ UNCHANGED extVars

\* (mutant of ApplyText: the text is appended, as the live variant does)
ApplyTextAppending(prev, text) == prev \o text

\* setTranscript(data.text) of the success branch
ApplyText(prev, text) == text

\* supabase.functions.invoke settles for call c: the text is stored when the
\* response has one, every other outcome goes to the catch block; finally
\* clears isTranscribing.
BackendReply(c, resp) ==
    /\ c \in calls
    /\ c.phase = "invoking"
    /\ resp \in Responses
    /\ calls' = calls \ {c}
    /\ IF HasText(resp)
       THEN /\ transcript' = ApplyText(transcript, resp.text)
            /\ transcriptFrom' = c.session
            /\ toast' = "Transcription Complete"
       ELSE /\ UNCHANGED << transcript, transcriptFrom >>
            /\ toast' = "Transcription Failed"
    /\ isTranscribing' = FALSE
    /\ UNCHANGED << isRecording, isPlaying, audioURL, recordingTime,
                    mediaRecorderRef, intervalRef, chunksRef,
                    pendingStarts, streams, recorders, intervals, nIntervals,
                    urls, nUrls, session, nSessions, urlFrom, ticks >>
    /\ UNCHANGED extVars

\* ----------------------------------------------------------------- upload

\* A file of the given type is picked with the Upload Audio button, which is
\* disabled while isRecording: handleFileUpload.
HandleFileUpload(type) ==
    /\ ~isRecording
    /\ type \in FileTypes
    /\ IF ~IsAudioFile(type)
       THEN /\ toast' = "Invalid File"
            /\ UNCHANGED << progVars, urls, nUrls, calls, session,
                            nSessions, transcriptFrom, urlFrom >>
       ELSE /\ Begun < MaxSessions
            /\ nUrls' = nUrls + 1
            /\ urls' = urls \cup {nUrls + 1}
            /\ audioURL' = nUrls + 1
            /\ transcript' = <<>>
            /\ recordingTime' = 0
            /\ isTranscribing' = TRUE
            /\ calls' = calls \cup {[session |-> nSessions + 1,
                                     phase |-> "reading", file |-> TRUE,
                                     blob |-> <<0>>]}
            /\ nSessions' = nSessions + 1
            /\ session' = nSessions + 1
            /\ transcriptFrom' = 0
            /\ urlFrom' = nSessions + 1
            /\ toast' = "File Uploaded"
            /\ UNCHANGED << isRecording, isPlaying, mediaRecorderRef,
                            intervalRef, chunksRef >>
    /\ UNCHANGED << pendingStarts, streams, recorders, intervals, nIntervals, ticks >>
    /\ UNCHANGED extVars

\* ------------------------------------------------------- clear, playback

\* clearRecording; the Clear button is rendered while audioURL is set.
ClearRecording ==
    /\ audioURL # 0
    /\ audioURL' = 0
    /\ transcript' = <<>>
    /\ recordingTime' = 0
    /\ isPlaying' = FALSE
    /\ session' = 0
    /\ transcriptFrom' = 0
    /\ urlFrom' = 0
    /\ toast' = "Recording Cleared"
    /\ UNCHANGED << isRecording, isTranscribing, mediaRecorderRef, intervalRef,
                    chunksRef, envVars, nSessions, ticks >>
    /\ UNCHANGED extVars

\* playAudio; the Play/Pause button is rendered while audioURL is set.
PlayAudio ==
    /\ audioURL # 0
    /\ isPlaying' = ~isPlaying
    /\ UNCHANGED toast
    /\ UNCHANGED << isRecording, audioURL, transcript, isTranscribing,
                    recordingTime, mediaRecorderRef, intervalRef, chunksRef,
                    envVars, session, nSessions, transcriptFrom,
                    urlFrom, ticks >>
    /\ UNCHANGED extVars

\* The ended event of the <audio> element, which plays audioURL: onEnded.
AudioEnded ==
    /\ audioURL # 0
    /\ isPlaying
    /\ isPlaying' = FALSE
    /\ UNCHANGED toast
    /\ UNCHANGED << isRecording, audioURL, transcript, isTranscribing,
                    recordingTime, mediaRecorderRef, intervalRef, chunksRef,
                    envVars, session, nSessions, transcriptFrom,
                    urlFrom, ticks >>
    /\ UNCHANGED extVars

\* ------------------------------------------------- recorder setup failure

\* where the setup of the recorder can throw once the stream is granted:
\* new MediaRecorder(stream) (line 426) or mediaRecorderRef.current.start()
\* (line 447)
SetupSteps == { "construct", "start" }

\* getUserMedia resolves with a stream and the setup of the recorder throws:
\* the catch block runs; the statements before the throw have taken effect.
\* (Followed while fewer than MaxSessions streams have been granted.)
RecorderSetupFails(over, at) ==
    /\ pendingStarts[over] > 0
    /\ at \in SetupSteps
    /\ Len(streams) < MaxSessions
    /\ pendingStarts' = [pendingStarts EXCEPT ![over] = @ - 1]
    /\ streams' = Append(streams, "live")
    /\ IF at = "start"
       THEN /\ recorders' = Append(recorders, [state |-> "inactive",
                                               stream |-> Len(streams) + 1,
                                               session |-> 0,
                                               over |-> over])
            /\ mediaRecorderRef' = Len(recorders) + 1
            /\ chunksRef' = <<>>
       ELSE UNCHANGED << recorders, mediaRecorderRef, chunksRef >>
    /\ toast' = "Recording Failed"
    /\ UNCHANGED << isRecording, isPlaying, audioURL, transcript, isTranscribing,
                    recordingTime, intervalRef, intervals, nIntervals, urls,
                    nUrls, calls, histVars, extVars >>

\* ------------------------------------------------------- copy, download

\* String.prototype.trim, on the blank token " "
RECURSIVE TrimStart(_)
TrimStart(s) == IF s # <<>> /\ Head(s) = " " THEN TrimStart(Tail(s)) ELSE s

RECURSIVE TrimEnd(_)
TrimEnd(s) ==
    IF s # <<>> /\ s[Len(s)] = " " THEN TrimEnd(SubSeq(s, 1, Len(s) - 1)) ELSE s

Trim(s) == TrimEnd(TrimStart(s))

\* (mutant of CopyTranscript: the transcript is cut, not copied)
CopyTranscriptCutting ==
    /\ transcript # <<>>
    /\ exportCmd' = "copy"
    /\ pendingCopies' = IF Trim(transcript) # <<>>
                        THEN pendingCopies \cup {Trim(transcript)}
                        ELSE pendingCopies
    /\ transcript' = <<>>
    /\ UNCHANGED << isRecording, isPlaying, audioURL, isTranscribing,
                    recordingTime, mediaRecorderRef, intervalRef, chunksRef,
                    envVars, histVars, mounted, clipboard, downloads, now,
                    toast >>
    /\ UNCHANGED recognition

\* copyTranscript up to the await; the Copy button is rendered while
\* transcript is not "".  navigator.clipboard.writeText is started when the
\* trimmed transcript is not empty; otherwise the handler returns.
CopyTranscript ==
    /\ transcript # <<>>
    /\ exportCmd' = "copy"
    /\ pendingCopies' = IF Trim(transcript) # <<>>
                        THEN pendingCopies \cup {Trim(transcript)}
                        ELSE pendingCopies
    /\ UNCHANGED << progVars, envVars, histVars, mounted, clipboard, downloads,
                    now, toast >>
    /\ UNCHANGED recognition

\* writeText settles: the rest of copyTranscript ("Copied!"), or its catch
\* block ("Copy Failed": the write is refused, or there is no clipboard).
ClipboardSettles(text, ok) ==
    /\ text \in pendingCopies
    /\ pendingCopies' = pendingCopies \ {text}
    /\ IF ok
       THEN /\ clipboard' = text
            /\ toast' = "Copied!"
       ELSE /\ UNCHANGED clipboard
            /\ toast' = "Copy Failed"
    /\ UNCHANGED << progVars, envVars, histVars, mounted, downloads, now,
                    exportCmd >>
    /\ UNCHANGED recognition

\* new Date().toISOString(): the date and time to the second (19 characters,
\* one token here), then the milliseconds and the zone
ToISOString(t) == << t.sec, ".", t.ms, "Z" >>

\* .slice(0, 19) of an ISO string: the date and time to the second
Slice19(iso) == SubSeq(iso, 1, 1)

\* the name downloadTranscript gives the file
FileName(t) == <<"transcript-">> \o Slice19(ToISOString(t)) \o <<".txt">>

\* downloadTranscript; the Download button is rendered while transcript is
\* not "".  The object URL of the text blob is revoked in the handler.
DownloadTranscript ==
    /\ transcript # <<>>
    /\ exportCmd' = "download"
    /\ IF Trim(transcript) # <<>>
       THEN /\ Len(downloads) < MaxDownloads
            /\ downloads' = Append(downloads, FileName(now))
            /\ toast' = "Downloaded!"
       ELSE UNCHANGED << downloads, toast >>
    /\ UNCHANGED << progVars, envVars, histVars, mounted, clipboard,
                    pendingCopies, now >>
    /\ UNCHANGED recognition

\* the milliseconds the clock shows within a second
Millis == { 0, 500 }

\* The wall clock advances by half a second.
ClockAdvance ==
    /\ now.ms = 500 => now.sec < MaxClock
    /\ now' = IF now.ms = 0
              THEN [now EXCEPT !.ms = 500]
              ELSE [sec |-> now.sec + 1, ms |-> 0]
    /\ UNCHANGED << progVars, envVars, histVars, mounted, clipboard,
                    pendingCopies, downloads, exportCmd, toast >>
    /\ UNCHANGED recognition

\* -------------------------------------------------------------- teardown

\* The component is unmounted: the cleanup of useEffect (lines 414-420).
Unmount ==
    /\ mounted
    /\ mounted' = FALSE
    /\ intervals' = intervals \ {intervalRef}
    /\ UNCHANGED << progVars, pendingStarts, streams, recorders, nIntervals,
                    urls, nUrls, calls, histVars, clipboard, pendingCopies,
                    downloads, now, exportCmd, toast >>
    /\ UNCHANGED recognition

\* ------------------------------------------- live recognition (lines 1-387)

\* transcripts of the segments a recognition result can carry
SegmentTexts == { <<>>, <<"a">>, <<"b">> }

\* event.results from event.resultIndex on: one or two results, each final
\* or interim
ResultEvents ==
    LET Results == [isFinal : BOOLEAN, text : SegmentTexts]
    IN  { <<r>> : r \in Results } \cup { <<r, q>> : r \in Results, q \in Results }

\* the loop of recognition.onresult (lines 37-42)
RECURSIVE FinalTranscript(_)
FinalTranscript(results) ==
    IF results = <<>>
    THEN <<>>
    ELSE (IF Head(results).isFinal THEN Head(results).text ELSE <<>>)
         \o FinalTranscript(Tail(results))

\* the updater of line 44, applied when finalTranscript is not ""
OnResultUpdate(prev, results) ==
    IF FinalTranscript(results) # <<>>
    THEN prev \o FinalTranscript(results) \o <<" ">>
    ELSE prev

\* recognition.onresult of the live-recognition variant: results are
\* delivered while the recognition is started, and after recognition.stop()
\* until it has ended
OnResult(results) ==
    /\ results \in ResultEvents
    /\ recognition.state # "idle"
    /\ Len(OnResultUpdate(transcript, results)) <= MaxLen
    /\ transcript' = OnResultUpdate(transcript, results)
    /\ UNCHANGED << isRecording, isPlaying, audioURL, isTranscribing,
                    recordingTime, mediaRecorderRef, intervalRef, chunksRef,
                    envVars, histVars, extVars, toast >>

\* The recognition ends: after recognition.stop() once its last results are
\* out, or by itself (the service stops listening).  The component has no
\* handler for it.
RecognitionEnds ==
    /\ recognition.state # "idle"
    /\ recognition' = [recognition EXCEPT !.state = "idle"]
    /\ UNCHANGED << progVars, envVars, histVars, mounted, clipboard,
                    pendingCopies, downloads, now, exportCmd, toast >>

\* getUserMedia resolves in the live variant: the rest of startRecording
\* (lines 75-111).  recognition.start() on a recognition that has not ended
\* throws InvalidStateError: the catch block runs after the statements
\* before it.
LiveGetUserMediaResolves(over) ==
    /\ pendingStarts[over] > 0
    /\ pendingStarts' = [pendingStarts EXCEPT ![over] = @ - 1]
    /\ streams' = Append(streams, "live")
    /\ recorders' = Append(recorders, [state |-> "recording",
                                       stream |-> Len(streams) + 1,
                                       session |-> nSessions + 1,
                                       over |-> over])
    /\ mediaRecorderRef' = Len(recorders) + 1
    /\ chunksRef' = <<>>
    /\ isRecording' = TRUE
    /\ recordingTime' = 0
    /\ nIntervals' = nIntervals + 1
    /\ intervals' = intervals \cup {nIntervals + 1}
    /\ intervalRef' = nIntervals + 1
    /\ isTranscribing' = TRUE
    /\ IF recognition.state = "idle"
       THEN /\ recognition' = [state |-> "listening", session |-> nSessions + 1]
            /\ toast' = "Recording Started"
       ELSE /\ UNCHANGED recognition
            /\ toast' = "Recording Failed"
    /\ nSessions' = nSessions + 1
    /\ session' = nSessions + 1
    /\ ticks' = 0
    /\ UNCHANGED << isPlaying, audioURL, transcript, urls, nUrls, calls,
                    transcriptFrom, urlFrom, mounted, clipboard, pendingCopies,
                    downloads, now, exportCmd >>

\* stopRecording of the live variant (lines 123-142): as in the single-shot
\* variant, but isTranscribing is cleared and the recognition is stopped.
LiveStopRecording ==
    /\ IF StopGuard
       THEN \E throws \in BOOLEAN :
            LET r == mediaRecorderRef
                active == recorders[r].state = "recording"
            IN  /\ active => ~throws
                /\ recorders' = IF active
                                THEN [recorders EXCEPT ![r].state = "stopping"]
                                ELSE recorders
                /\ IF throws
                   THEN UNCHANGED << isRecording, isTranscribing, intervals,
                                     ticks, recognition, toast >>
                   ELSE /\ isRecording' = FALSE
                        /\ isTranscribing' = FALSE
                        /\ intervals' = intervals \ {intervalRef}
                        /\ ticks' = 0
                        /\ recognition' =
                              IF recognition.state = "listening"
                              THEN [recognition EXCEPT !.state = "stopping"]
                              ELSE recognition
                        /\ toast' = "Recording Stopped"
       ELSE UNCHANGED << isRecording, isTranscribing, intervals, recorders,
                         ticks, recognition, toast >>
    /\ UNCHANGED << isPlaying, audioURL, transcript, recordingTime,
                    mediaRecorderRef, intervalRef, chunksRef,
                    pendingStarts, streams, nIntervals, urls, nUrls, calls,
                    session, nSessions, transcriptFrom, urlFrom, mounted,
                    clipboard, pendingCopies, downloads, now, exportCmd >>

\* The events of a stopped recorder in the live variant: ondataavailable,
\* then onstop (lines 84-91), which presents the blob and stops the tracks.
LiveRecorderEvents(r) ==
    /\ r \in 1..Len(recorders)
    /\ recorders[r].state = "stopping"
    /\ \E size \in {0, 1} : chunksRef' = OnDataAvailable(chunksRef, r, size)
    /\ recorders' = [recorders EXCEPT ![r].state = "done"]
    /\ nUrls' = nUrls + 1
    /\ urls' = urls \cup {nUrls + 1}
    /\ audioURL' = nUrls + 1
    /\ streams' = [streams EXCEPT ![recorders[r].stream] = "ended"]
    /\ urlFrom' = recorders[r].session
    /\ UNCHANGED << isRecording, isPlaying, transcript, isTranscribing,
                    recordingTime, mediaRecorderRef, intervalRef,
                    pendingStarts, intervals, nIntervals, calls,
                    session, nSessions, transcriptFrom, ticks, extVars, toast >>

\* handleFileUpload of the live variant (lines 210-233): the file is
\* presented for playback, no transcription is started.
LiveHandleFileUpload(type) ==
    /\ ~isRecording
    /\ type \in FileTypes
    /\ IF ~IsAudioFile(type)
       THEN /\ toast' = "Invalid File"
            /\ UNCHANGED << audioURL, transcript, recordingTime, urls, nUrls,
                            session, nSessions, transcriptFrom, urlFrom >>
       ELSE /\ Begun < MaxSessions
            /\ nUrls' = nUrls + 1
            /\ urls' = urls \cup {nUrls + 1}
            /\ audioURL' = nUrls + 1
            /\ transcript' = <<>>
            /\ recordingTime' = 0
            /\ nSessions' = nSessions + 1
            /\ session' = nSessions + 1
            /\ transcriptFrom' = 0
            /\ urlFrom' = nSessions + 1
            /\ toast' = "File Uploaded"
    /\ UNCHANGED << isRecording, isPlaying, isTranscribing, mediaRecorderRef,
                    intervalRef, chunksRef, pendingStarts, streams, recorders,
                    intervals, nIntervals, calls, ticks, extVars >>

\* ------------------------------------------------------------------ spec

Next ==
    \/ StartRecording
    \/ \E over \in BOOLEAN : GetUserMediaRejects(over)
    \/ \E over \in BOOLEAN : GetUserMediaResolves(over)
    \/ \E i \in intervals : Tick(i)
    \/ StopRecording
    \/ \E r \in 1..Len(recorders) : RecorderEvents(r)
    \/ \E c \in calls : ReaderLoadEnd(c)
    \/ \E c \in calls, resp \in Responses : BackendReply(c, resp)
    \/ \E type \in FileTypes : HandleFileUpload(type)
    \/ ClearRecording
    \/ PlayAudio
    \/ AudioEnded

Spec == Init /\ [][Next]_vars

\* Specifications that add handlers to those of Spec are followed for one
\* Session fewer than Spec.
FewerSessions == Begun + 1 < MaxSessions

\* The component with the copy and download handlers.
NextExport ==
    \/ FewerSessions /\ StartRecording
    \/ \E over \in BOOLEAN : GetUserMediaRejects(over)
    \/ \E over \in BOOLEAN : GetUserMediaResolves(over)
    \/ \E i \in intervals : Tick(i)
    \/ StopRecording
    \/ \E r \in 1..Len(recorders) : RecorderEvents(r)
    \/ \E c \in calls : ReaderLoadEnd(c)
    \/ \E c \in calls, resp \in Responses : BackendReply(c, resp)
    \/ \E type \in FileTypes :
          (IsAudioFile(type) => FewerSessions) /\ HandleFileUpload(type)
    \/ ClearRecording
    \/ PlayAudio
    \/ AudioEnded
    \/ CopyTranscript
    \/ \E text \in pendingCopies, ok \in BOOLEAN : ClipboardSettles(text, ok)
    \/ DownloadTranscript

SpecExport == Init /\ [][NextExport]_vars

\* The component up to its teardown, with the failures of the recorder
\* setup.
NextLifecycle ==
    \/ mounted /\ FewerSessions /\ StartRecording
    \/ mounted /\ \E over \in BOOLEAN : GetUserMediaRejects(over)
    \/ mounted /\ \E over \in BOOLEAN : GetUserMediaResolves(over)
    \/ mounted /\ \E over \in BOOLEAN, at \in SetupSteps : RecorderSetupFails(over, at)
    \/ mounted /\ \E i \in intervals : Tick(i)
    \/ mounted /\ StopRecording
    \/ mounted /\ \E r \in 1..Len(recorders) : RecorderEvents(r)
    \/ mounted /\ \E c \in calls : ReaderLoadEnd(c)
    \/ mounted /\ \E c \in calls, resp \in Responses : BackendReply(c, resp)
    \/ mounted /\ \E type \in FileTypes :
                    (IsAudioFile(type) => FewerSessions) /\ HandleFileUpload(type)
    \/ mounted /\ ClearRecording
    \/ mounted /\ PlayAudio
    \/ mounted /\ AudioEnded
    \/ Unmount

SpecLifecycle == Init /\ [][NextLifecycle]_vars

\* Uploads and their transcriptions, the wall clock and downloadTranscript.
NextDownload ==
    \/ \E type \in FileTypes : HandleFileUpload(type)
    \/ \E c \in calls : ReaderLoadEnd(c)
    \/ \E c \in calls, resp \in Responses : BackendReply(c, resp)
    \/ ClockAdvance
    \/ DownloadTranscript

SpecDownload == Init /\ [][NextDownload]_vars

\* The live-recognition variant: recording, upload, clear and the
\* recognition.  startRecording up to its await, its catch block, the
\* interval callback and clearRecording are the same code in both variants.
NextLive ==
    \/ StartRecording
    \/ \E over \in BOOLEAN : GetUserMediaRejects(over)
    \/ \E over \in BOOLEAN : LiveGetUserMediaResolves(over)
    \/ \E i \in intervals : Tick(i)
    \/ LiveStopRecording
    \/ \E r \in 1..Len(recorders) : LiveRecorderEvents(r)
    \/ \E type \in FileTypes : LiveHandleFileUpload(type)
    \/ ClearRecording
    \/ \E results \in ResultEvents : OnResult(results)
    \/ RecognitionEnds

SpecLive == Init /\ [][NextLive]_vars

\* ------------------------------------------------------------ sanity

TypeOK ==
    /\ isRecording \in BOOLEAN
    /\ isPlaying \in BOOLEAN
    /\ isTranscribing \in BOOLEAN
    /\ audioURL \in 0..nUrls
    /\ recordingTime \in 0..MaxTime
    /\ mediaRecorderRef \in 0..Len(recorders)
    /\ intervalRef \in 0..nIntervals
    /\ intervals \subseteq 1..nIntervals
    /\ urls \subseteq 1..nUrls
    /\ session \in 0..nSessions
    /\ mounted \in BOOLEAN
    /\ Len(downloads) <= MaxDownloads
    /\ now.sec \in 0..MaxClock
    /\ now.ms \in Millis
    /\ Len(transcript) <= MaxLen

\* stopRecording never meets a recorder that is not recording
StopMeetsActiveRecorder ==
    isRecording => mediaRecorderRef # 0 /\ recorders[mediaRecorderRef].state = "recording"

\* ------------------------------------------------------------- claims

\* C1: a transcription result is applied only to the Session that issued
\* the call: when a call of another Session than the one presented (or of
\* any Session after clear) settles, transcript is left as it was.
C1_StaleResultDiscarded ==
    [][\A c \in calls, resp \in Responses :
         (BackendReply(c, resp) /\ c.session # session)
             => transcript' = transcript]_vars

\* C2: clear leaves the Session Idle from every state: not recording, no
\* pending indicator, empty transcript, zero elapsed seconds, the audio
\* handle empty and its object URL released.
C2_ClearLeavesIdle ==
    [][ClearRecording =>
         /\ ~isRecording'
         /\ ~isTranscribing'
         /\ transcript' = <<>>
         /\ recordingTime' = 0
         /\ audioURL' = 0
         /\ audioURL \notin urls']_vars

\* C3: when a new Session begins (a recording whose startRecording was
\* issued while a Session was presented, or an upload) while another is
\* presented, the transcript and the audio handle of the old Session are
\* reset: the new Session shows no transcript and no audio of the old one.
C3_NewSessionResetsOld ==
    [][(/\ session # 0 /\ session' # 0 /\ session' # session
        /\ Len(recorders') > Len(recorders)
               => recorders'[Len(recorders')].over)
         => (transcript' = <<>> /\ urlFrom' \in {0, session'})]_vars

\* C4: when the transcription call of the presented Session fails (error,
\* or a response without text), the Session is Failed: transcript empty,
\* the audio of that Session still presented, nothing pending.
C4_FailureLeavesFailed ==
    [][\A c \in calls, resp \in Responses :
         (/\ BackendReply(c, resp)
          /\ c.session = session
          /\ ~(resp.kind = "data" /\ resp.text # <<>>))
             => /\ transcript' = <<>>
                /\ audioURL' # 0
                /\ urlFrom' = session
                /\ ~isTranscribing'
                /\ ~isRecording']_vars

\* C5: the microphone is acquired once: at most one recorder (each holds
\* its own capture stream) is recording at any time.
C5_SingleCapture == Cardinality(ActiveRecorders) <= 1

\* C6: stopRecording is idempotent: after it the Session is not Recording,
\* and called when the Session is not Recording it changes nothing (so a
\* second call in a row changes nothing).
C6_StopIdempotent ==
    /\ [][(isRecording' /\ StopRecording) => FALSE]_vars
    /\ [][(~isRecording /\ StopRecording)
            => UNCHANGED << progVars, envVars, session, toast >>]_vars

\* C6 witness: stopRecording has run on a recording (its recorder's events
\* are still to come) and the Session is no longer Recording: the state in
\* which a second call is made.
C6_Witness ==
    /\ toast = "Recording Stopped"
    /\ ~isRecording
    /\ mediaRecorderRef # 0
    /\ recorders[mediaRecorderRef].state = "stopping"

\* C7: at stopRecording, the elapsed seconds equal the number of Clock
\* ticks delivered to the recording since it began.
C7_ElapsedEqualsTicks ==
    [][(StopRecording /\ isRecording) => recordingTime = ticks]_vars

\* file types that do not name audio
NonAudioTypes == { <<"text", "/", "plain">>, <<"video", "/", "mp4">>, <<>> }
\* the toasts of handleFileUpload: every step of it shows one of them
UploadToasts == { "Invalid File", "File Uploaded" }
\* the toasts of a settled backend call: every such step shows one of them
ReplyToasts == { "Transcription Complete", "Transcription Failed" }

\* C8: uploadFile with a non-audio file is rejected with "Invalid File" and
\* changes nothing: state, audio handle, transcript, elapsed seconds, and no
\* transcription call is started.
C8_InvalidUploadChangesNothing ==
    [][toast' \in UploadToasts =>
         \A type \in NonAudioTypes :
            HandleFileUpload(type)
                => /\ toast' = "Invalid File"
                   /\ UNCHANGED << progVars, envVars, session >>]_vars

\* C8 witness: a non-audio file has been rejected while a Session with a
\* transcript was presented.
C8_Witness ==
    /\ toast = "Invalid File"
    /\ session # 0
    /\ transcript # <<>>
    /\ audioURL # 0

\* C9: every transcription that is started completes: once no recorder
\* event and no call is outstanding, the pending indicator is cleared.
C9_TranscriptionCompletes ==
    (calls = {} /\ EndingRecorders = {}) => ~isTranscribing

\* C10: a transcription that completes as a success stores exactly the
\* non-empty text the backend returned, replacing what was there; a response
\* with an empty or missing text is not a success and stores nothing.
C10_SuccessStoresPayload ==
    [][(calls' # calls /\ toast' \in ReplyToasts) =>
         \A c \in calls \ calls', resp \in Responses :
            BackendReply(c, resp)
                => /\ toast' = "Transcription Complete"
                        => (transcript' = resp.text /\ transcript' # <<>>)
                   /\ (resp.kind # "data" \/ resp.text = <<>>)
                        => (toast' = "Transcription Failed" /\ transcript' = transcript)
                   /\ (resp.kind = "data" /\ resp.text # <<>>)
                        => toast' = "Transcription Complete"]_vars

\* C10 witness: the second Session's transcription succeeded and its text
\* is the transcript.
C10_Witness ==
    /\ toast = "Transcription Complete"
    /\ transcriptFrom = 2
    /\ session = 2
    /\ transcript # <<>>

\* C11: copyTranscript and downloadTranscript on a transcript that is empty
\* after trimming write nothing to the clipboard, create no file, and
\* report it: a notification is shown.
C11_BlankExportReports ==
    [][((CopyTranscript \/ DownloadTranscript) /\ Trim(transcript) = <<>>)
         => /\ UNCHANGED << clipboard, pendingCopies, downloads >>
            /\ toast' # toast]_vars

\* C12: copyTranscript (and the settling of its clipboard write, success or
\* failure), downloadTranscript and playAudio leave the Session as it is:
\* the recording and pending flags, the transcript, the elapsed seconds and
\* the audio handle.
C12_ExportAndPlaybackKeepSession ==
    [][(\/ CopyTranscript
        \/ DownloadTranscript
        \/ PlayAudio
        \/ \E text \in pendingCopies, ok \in BOOLEAN : ClipboardSettles(text, ok))
         => UNCHANGED << isRecording, isTranscribing, transcript,
                         recordingTime, audioURL >>]_vars

\* C12 witness: with a transcript and its audio presented, the audio is
\* playing, the transcript was downloaded, and a copy has succeeded.
C12_Witness ==
    /\ toast = "Copied!"
    /\ clipboard = Trim(transcript)
    /\ downloads # <<>>
    /\ isPlaying
    /\ audioURL # 0

\* C13: a startRecording that cannot begin capture (getUserMedia rejects,
\* or the recorder setup throws once the stream is granted) leaves the
\* Session as it was: not marked Recording, no timer started, the elapsed
\* seconds unchanged, and no further microphone stream open.
C13_FailedStartLeavesNoTrace ==
    [][(\E over \in BOOLEAN :
           \/ GetUserMediaRejects(over)
           \/ \E at \in SetupSteps : RecorderSetupFails(over, at))
         => /\ UNCHANGED << isRecording, recordingTime, intervals >>
            /\ LiveStreams' = LiveStreams]_vars

\* C14: no two invocations of downloadTranscript give the same file name.
C14_UniqueFileNames ==
    \A i, j \in 1..Len(downloads) : i # j => downloads[i] # downloads[j]

\* C15: clear issued while Recording stops first: after it the Session is
\* not Recording, no recorder is recording, no microphone stream is open
\* and no interval runs.
C15_ClearStopsRecording ==
    [][(ClearRecording /\ isRecording)
         => /\ ~isRecording'
            /\ ActiveRecorders' = {}
            /\ LiveStreams' = {}
            /\ intervals' = {}]_vars

\* C16: no microphone stream is left open that nothing will close: every
\* open stream is that of a recorder whose stop events are still to come,
\* or of the recorder that stopRecording of the mounted component, which
\* is Recording, will stop.
C16_NoOrphanStream ==
    \A s \in LiveStreams :
        \E r \in 1..Len(recorders) :
            /\ recorders[r].stream = s
            /\ \/ r \in EndingRecorders
               \/ /\ mounted
                  /\ isRecording
                  /\ r = mediaRecorderRef
                  /\ recorders[r].state = "recording"

\* C17: whenever the Session is not Recording, no interval is running.
C17_NoIntervalOutsideRecording == ~isRecording => intervals = {}

\* C18: while the Session stays Recording (no new recording begins), the
\* elapsed seconds change only by a Clock tick, which adds 1.
C18_ElapsedOnlyTicks ==
    [][(isRecording /\ isRecording' /\ Len(recorders') = Len(recorders)
        /\ recordingTime' # recordingTime)
         => /\ recordingTime' = recordingTime + 1
            /\ \E i \in intervals : Tick(i)]_vars

\* C19: the buffer assembled when a recorder's events are delivered (the
\* chunks in chunksRef after them) holds chunks of that recording only,
\* each once (a recorder delivers one chunk).
C19_BufferOfOwnChunks ==
    [][\A r \in 1..Len(recorders) :
         RecorderEvents(r)
             => /\ \A k \in 1..Len(chunksRef') : chunksRef'[k] = r
                /\ Len(chunksRef') <= 1]_vars

\* the transcript the live mode is to store after a result event: each
\* finalized segment appended in order, each followed by a space
RECURSIVE AppendSegments(_, _)
AppendSegments(prev, results) ==
    IF results = <<>>
    THEN prev
    ELSE AppendSegments(
             IF Head(results).isFinal /\ Head(results).text # <<>>
             THEN prev \o Head(results).text \o <<" ">>
             ELSE prev,
             Tail(results))

\* C20: in live mode a result event leaves the transcript equal to the
\* previous one followed by each finalized segment of the event in order,
\* the segments separated by a space; interim segments change nothing.
C20_FinalSegmentsAppended ==
    [][\A results \in ResultEvents :
         OnResult(results)
             => transcript' = AppendSegments(transcript, results)]_vars

\* C21: audio object URLs do not accumulate: the only object URL not
\* released is the one presented as the audio handle.
C21_NoStaleObjectUrl == \A u \in urls : u = audioURL

\* C22: the Session is never both Recording and awaiting a transcription.
C22_RecordingExcludesPending == ~(isRecording /\ isTranscribing)

\* C23: the pending indicator is set in every state where a transcription
\* call is in flight.
C23_PendingWhileCallInFlight == calls # {} => isTranscribing

\* C24: in live mode, a recognition result delivered once the recording it
\* belongs to has been stopped and is no longer the Session presented
\* (clear or a new upload has reset the transcript) does not change the
\* transcript.
C24_LateResultDiscarded ==
    [][(/\ ~isRecording
        /\ recognition.session # session
        /\ \E results \in ResultEvents : OnResult(results))
         => transcript' = transcript]_vars

=============================================================================
